---- MODULE Spec2Model ----
(***************************************************************************)
(* A model of the falling-block game of src/src/main.rs: the playfield     *)
(* grid, the current piece, the collision predicate, rotation with         *)
(* rollback, locking, row clearing and the gravity timer of the main loop. *)
(*                                                                         *)
(* Rows and columns are numbered from 0 as in the source.  A shape is a    *)
(* sequence of rows, each a sequence of booleans, so cell (i, j) of the    *)
(* source (0-based) is shape[i + 1][j + 1] here.  Time is counted in units *)
(* of 0.05 s, so the two fall speeds 0.5 and 0.05 are 10 and 1.            *)
(***************************************************************************)
EXTENDS Integers, Sequences, FiniteSets

VARIABLES
    grid,           \* GameState.grid : row -> column -> None or a piece type
    current_piece,  \* GameState.current_piece : [shape, x, y, piece_type]
    last_fall,      \* GameState.last_fall
    fall_speed,     \* GameState.fall_speed
    now,            \* the latest value get_time() returned
    last            \* history: the operation that produced this state

vars == <<grid, current_piece, last_fall, fall_speed, now, last>>

----------------------------------------------------------------------------
(* Program constants *)

GridRows == 20
GridCols == 10
SpawnX == 4
SpawnY == 0
NormalFall == 10
FastFall == 1

(* Bounds of the model *)

\* the top occupied row of the mid-game start position
StartTop == 2
\* can_move is probed at origins up to this far outside the playfield
ProbeMargin == 2
\* clear_rows is run on grids with up to this many complete rows, and on
\* the grid whose rows are all complete
MaxFull == 2
\* rotate_piece is called up to this many times in a row
MaxTurns == 4
\* rotation starts from pieces moved up to this many columns to either side
\* and fallen up to this many rows from their spawn
MaxShift == 2
MaxDrop == 2

None == "None"
PieceType == {"I", "J", "L", "O", "S", "T", "Z"}

\* the instants at which the clock is read: the start, one fast fall
\* interval later and one normal fall interval later.  A behaviour therefore
\* holds at most two due ticks, at either fall speed
Times == {0, FastFall, NormalFall}

RowIdx == 0 .. (GridRows - 1)
ColIdx == 0 .. (GridCols - 1)

----------------------------------------------------------------------------
(* Shape catalogue and piece construction *)

get_piece_shape(piece_type) ==
    CASE piece_type = "I" -> << <<TRUE, TRUE, TRUE, TRUE>> >>
      [] piece_type = "J" -> << <<TRUE, FALSE, FALSE>>,
                                <<TRUE, TRUE, TRUE>> >>
      [] piece_type = "L" -> << <<FALSE, FALSE, TRUE>>,
                                <<TRUE, TRUE, TRUE>> >>
      [] piece_type = "O" -> << <<TRUE, TRUE>>,
                                <<TRUE, TRUE>> >>
      [] piece_type = "S" -> << <<FALSE, TRUE, TRUE>>,
                                <<TRUE, TRUE, FALSE>> >>
      [] piece_type = "T" -> << <<FALSE, TRUE, FALSE>>,
                                <<TRUE, TRUE, TRUE>> >>
      [] piece_type = "Z" -> << <<TRUE, TRUE, FALSE>>,
                                <<FALSE, TRUE, TRUE>> >>

\* spawn_new_piece with the random draw made explicit
spawn_new_piece(piece_type) ==
    [shape |-> get_piece_shape(piece_type),
     x |-> SpawnX,
     y |-> SpawnY,
     piece_type |-> piece_type]

EmptyRow == [c \in ColIdx |-> None]
EmptyGrid == [r \in RowIdx |-> EmptyRow]

----------------------------------------------------------------------------
(* Collision predicate *)

\* can_move with the occupancy test skipped for row 0 (grid_y > 0)
can_move_row0(g, shape, new_x, new_y) ==
    \A i \in 1 .. Len(shape) : \A j \in 1 .. Len(shape[i]) :
        shape[i][j] =>
            LET grid_x == new_x + (j - 1)
                grid_y == new_y + (i - 1)
            IN  /\ ~(grid_x < 0 \/ grid_x >= GridCols \/ grid_y >= GridRows)
                /\ ~(grid_y > 0 /\ g[grid_y][grid_x] # None)

\* can_move with the grid and the shape it reads passed explicitly
can_move(g, shape, new_x, new_y) ==
    \A i \in 1 .. Len(shape) : \A j \in 1 .. Len(shape[i]) :
        shape[i][j] =>
            LET grid_x == new_x + (j - 1)
                grid_y == new_y + (i - 1)
            IN  /\ ~(grid_x < 0 \/ grid_x >= GridCols \/ grid_y >= GridRows)
                /\ ~(grid_y >= 0 /\ g[grid_y][grid_x] # None)

----------------------------------------------------------------------------
(* Rotation *)

\* the rotated matrix built by rotate_piece: new[j][rows-1-i] = old[i][j]
\* the rotation that only reverses the order of the rows
rotated_shape_flipped(old_shape) ==
    [b \in 1 .. Len(old_shape) |-> old_shape[Len(old_shape) + 1 - b]]

\* the rotation with its inner loop stopping one source row early
rotated_shape_short(old_shape) ==
    LET rows == Len(old_shape)
        cols == Len(old_shape[1])
    IN  [a \in 1 .. cols |-> [b \in 1 .. rows |->
            b > 1 /\ old_shape[rows + 1 - b][a]]]

\* the rotation writing old[i][j] to new[j][i]
rotated_shape_transposed(old_shape) ==
    LET rows == Len(old_shape)
        cols == Len(old_shape[1])
    IN  [a \in 1 .. cols |-> [b \in 1 .. rows |-> old_shape[b][a]]]

rotated_shape(old_shape) ==
    LET rows == Len(old_shape)
        cols == Len(old_shape[1])
    IN  [a \in 1 .. cols |-> [b \in 1 .. rows |-> old_shape[rows + 1 - b][a]]]

\* rotate_piece without the rollback
rotate_result_norollback(g, p) == rotated_shape(p.shape)

\* the shape rotate_piece leaves in the piece: the rotated one, or the old
\* one when the rotated one cannot be placed at the unchanged origin
rotate_result(g, p) ==
    LET new_shape == rotated_shape(p.shape)
    IN  IF ~can_move(g, new_shape, p.x, p.y) THEN p.shape ELSE new_shape

----------------------------------------------------------------------------
(* Row clearing *)

row_complete(row) == \A c \in ColIdx : row[c] # None

\* remove_row without the fresh empty row at the top
remove_row_keeptop(g, row) ==
    [r \in RowIdx |->
        IF r = 0 THEN g[0]
        ELSE IF r <= row THEN g[r - 1]
        ELSE g[r]]

\* the inner for loop and the new top row: rows above `row` move down by one
remove_row(g, row) ==
    [r \in RowIdx |->
        IF r = 0 THEN EmptyRow
        ELSE IF r <= row THEN g[r - 1]
        ELSE g[r]]

\* the scan moving up after a removal instead of re-examining the row
RECURSIVE clear_loop_advance(_, _)
clear_loop_advance(g, row) ==
    IF row > 0
    THEN IF row_complete(g[row])
         THEN clear_loop_advance(remove_row(g, row), row - 1)
         ELSE clear_loop_advance(g, row - 1)
    ELSE g

RECURSIVE clear_loop(_, _)
clear_loop(g, row) ==
    IF row > 0
    THEN IF row_complete(g[row])
         THEN clear_loop(remove_row(g, row), row)
         ELSE clear_loop(g, row - 1)
    ELSE g

clear_rows(g) == clear_loop(g, GridRows - 1)

----------------------------------------------------------------------------
(* Locking *)

\* the piece has an occupied cell at absolute row r, column c
piece_covers(p, r, c) ==
    \E i \in 1 .. Len(p.shape) : \E j \in 1 .. Len(p.shape[i]) :
        /\ p.shape[i][j]
        /\ p.y + (i - 1) = r
        /\ p.x + (j - 1) = c

\* lock_piece writing only the cells below row 0 (grid_y > 0)
lock_write_row0(g, p) ==
    [r \in RowIdx |-> [c \in ColIdx |->
        IF r > 0 /\ piece_covers(p, r, c) THEN p.piece_type ELSE g[r][c]]]

\* the first loop of lock_piece: the piece's cells written into the grid
lock_write(g, p) ==
    [r \in RowIdx |-> [c \in ColIdx |->
        IF piece_covers(p, r, c) THEN p.piece_type ELSE g[r][c]]]

\* rows cleared before the cells are written
lock_grid_clearfirst(g, p) == lock_write(clear_rows(g), p)

\* the grid lock_piece leaves: cells written, then rows cleared
lock_grid(g, p) == clear_rows(lock_write(g, p))

----------------------------------------------------------------------------
(* Positions reached by play, used as start positions *)

\* the row a piece comes to rest at when only gravity acts on it
RECURSIVE rest_y(_, _, _, _)
rest_y(g, shape, x, y) ==
    IF can_move(g, shape, x, y + 1) THEN rest_y(g, shape, x, y + 1) ELSE y

\* one piece played from its spawn: moved along the spawn row to column x
\* (every step accepted by can_move), dropped by gravity and locked
play_piece(g, piece_type, x) ==
    LET p == spawn_new_piece(piece_type)
        lo == IF x < p.x THEN x ELSE p.x
        hi == IF x < p.x THEN p.x ELSE x
    IN  IF \A xx \in lo .. hi : can_move(g, p.shape, xx, p.y)
        THEN lock_grid(g, [p EXCEPT !.x = x,
                                    !.y = rest_y(g, p.shape, x, p.y)])
        ELSE g

\* rows top..19 laid from the bottom up with two flat I pieces each, played
\* at columns 0 and 4 or at columns 6 and 2 in turn: the two free columns
\* alternate between the right and the left edge, so that no row is
\* complete and every gap below the top row is covered
brick_grid(top) ==
    [r \in RowIdx |-> [c \in ColIdx |->
        IF r >= top /\ (IF (GridRows - 1 - r) % 2 = 0
                        THEN c < 2 * SpawnX
                        ELSE c >= GridCols - 2 * SpawnX)
        THEN "I" ELSE None]]

StartGrids == {EmptyGrid, brick_grid(StartTop)}

----------------------------------------------------------------------------
(* The game: GameState::new and the main loop *)

\* GameState::new on the empty grid, or the game picked up at a position
\* reached by play with a piece just spawned and the fall timer just reset
Init ==
    /\ grid \in StartGrids
    /\ \E piece_type \in PieceType :
           current_piece = spawn_new_piece(piece_type)
    /\ now = 0
    /\ last_fall = 0
    /\ fall_speed = NormalFall
    /\ last = [op |-> IF grid = EmptyGrid THEN "new" ELSE "play",
               res |-> "spawned"]

\* the Left key committing the move without asking can_move
KeyLeft_unchecked ==
    /\ current_piece' = [current_piece EXCEPT !.x = current_piece.x - 1]
    /\ last' = [op |-> "left",
                res |-> IF can_move(grid, current_piece.shape,
                                    current_piece.x - 1, current_piece.y)
                        THEN "moved" ELSE "blocked"]
    /\ UNCHANGED <<grid, last_fall, fall_speed, now>>

\* the Left key: lines 206-211
KeyLeft ==
    LET new_x == current_piece.x - 1
        ok == can_move(grid, current_piece.shape, new_x, current_piece.y)
    IN  /\ current_piece' = IF ok THEN [current_piece EXCEPT !.x = new_x]
                                  ELSE current_piece
        /\ last' = [op |-> "left", res |-> IF ok THEN "moved" ELSE "blocked"]
        /\ UNCHANGED <<grid, last_fall, fall_speed, now>>

\* the Right key committing the move without asking can_move
KeyRight_unchecked ==
    /\ current_piece' = [current_piece EXCEPT !.x = current_piece.x + 1]
    /\ last' = [op |-> "right",
                res |-> IF can_move(grid, current_piece.shape,
                                    current_piece.x + 1, current_piece.y)
                        THEN "moved" ELSE "blocked"]
    /\ UNCHANGED <<grid, last_fall, fall_speed, now>>

\* the Right key: lines 212-217
KeyRight ==
    LET new_x == current_piece.x + 1
        ok == can_move(grid, current_piece.shape, new_x, current_piece.y)
    IN  /\ current_piece' = IF ok THEN [current_piece EXCEPT !.x = new_x]
                                  ELSE current_piece
        /\ last' = [op |-> "right", res |-> IF ok THEN "moved" ELSE "blocked"]
        /\ UNCHANGED <<grid, last_fall, fall_speed, now>>

\* the R key: rotate_piece
rotate_piece ==
    LET new_shape == rotate_result(grid, current_piece)
    IN  /\ current_piece' = [current_piece EXCEPT !.shape = new_shape]
        /\ last' = [op |-> "rotate",
                    res |-> IF can_move(grid, rotated_shape(current_piece.shape),
                                        current_piece.x, current_piece.y)
                            THEN "turned" ELSE "reverted"]
        /\ UNCHANGED <<grid, last_fall, fall_speed, now>>

\* lock_piece: the grid written and cleared, a fresh piece spawned
lock_piece ==
    /\ grid' = lock_grid(grid, current_piece)
    /\ \E piece_type \in PieceType :
           current_piece' = spawn_new_piece(piece_type)

\* the falling block with a strict comparison of the elapsed time
Falling_strict(down, current_time) ==
    /\ fall_speed' = IF down THEN FastFall ELSE NormalFall
    /\ now' = current_time
    /\ IF current_time - last_fall > fall_speed'
       THEN /\ last_fall' = current_time
            /\ LET new_y == current_piece.y + 1
               IN  IF can_move(grid, current_piece.shape, current_piece.x, new_y)
                   THEN /\ current_piece' = [current_piece EXCEPT !.y = new_y]
                        /\ grid' = grid
                        /\ last' = [op |-> "fall", res |-> "moved"]
                   ELSE /\ lock_piece
                        /\ last' = [op |-> "fall", res |-> "locked"]
       ELSE /\ UNCHANGED <<grid, current_piece, last_fall>>
            /\ last' = [op |-> "fall", res |-> "idle"]

\* the falling block locking on every due tick
Falling_locks(down, current_time) ==
    /\ fall_speed' = IF down THEN FastFall ELSE NormalFall
    /\ now' = current_time
    /\ IF current_time - last_fall >= fall_speed'
       THEN /\ last_fall' = current_time
            /\ lock_piece
            /\ last' = [op |-> "fall", res |-> "locked"]
       ELSE /\ UNCHANGED <<grid, current_piece, last_fall>>
            /\ last' = [op |-> "fall", res |-> "idle"]

\* the Down key and the falling block: lines 218-222 and 230-240
Falling(down, current_time) ==
    /\ fall_speed' = IF down THEN FastFall ELSE NormalFall
    /\ now' = current_time
    /\ IF current_time - last_fall >= fall_speed'
       THEN /\ last_fall' = current_time
            /\ LET new_y == current_piece.y + 1
               IN  IF can_move(grid, current_piece.shape, current_piece.x, new_y)
                   THEN /\ current_piece' = [current_piece EXCEPT !.y = new_y]
                        /\ grid' = grid
                        /\ last' = [op |-> "fall", res |-> "moved"]
                   ELSE /\ lock_piece
                        /\ last' = [op |-> "fall", res |-> "locked"]
       ELSE /\ UNCHANGED <<grid, current_piece, last_fall>>
            /\ last' = [op |-> "fall", res |-> "idle"]

\* one pass of the loop body reads the Down key and the clock
Tick == \E down \in BOOLEAN : \E current_time \in {t \in Times : t >= now} :
            Falling(down, current_time)

\* A pass of the loop body handles Left, Right, R and the falling block in
\* this order.  Each is a step of its own here: a pass in which one key is
\* pressed and the tick is not due does exactly that key's step, and such a
\* pass is always possible (the clock unchanged, the Down key as before).
Next == KeyLeft \/ KeyRight \/ rotate_piece \/ Tick

Spec == Init /\ [][Next]_vars

----------------------------------------------------------------------------
(* can_move on its own: every orientation of every piece, probed at        *)
(* origins inside and around the playfield, on grids reached by play       *)

RECURSIVE rotate_times(_, _)
rotate_times(shape, n) ==
    IF n = 0 THEN shape ELSE rotate_times(rotated_shape(shape), n - 1)

ProbeGrids ==
    {EmptyGrid, brick_grid(StartTop)}
        \cup {play_piece(EmptyGrid, "I", x) : x \in {0, 6}}
        \cup {play_piece(brick_grid(1), "I", 4)}

ProbeX == (0 - ProbeMargin) .. (GridCols - 1 + ProbeMargin)
ProbeY == (0 - ProbeMargin - 2) .. (GridRows - 1 + ProbeMargin)

InitCanMove ==
    /\ grid \in ProbeGrids
    /\ \E t \in PieceType : \E n \in 0 .. 3 :
           current_piece =
               [spawn_new_piece(t) EXCEPT
                    !.shape = rotate_times(get_piece_shape(t), n)]
    /\ now = 0
    /\ last_fall = 0
    /\ fall_speed = NormalFall
    /\ last = [op |-> "new"]

CallCanMove ==
    \E new_x \in ProbeX : \E new_y \in ProbeY :
        /\ last.op = "new"
        /\ last' = [op |-> "can_move", x |-> new_x, y |-> new_y,
                    ok |-> can_move(grid, current_piece.shape, new_x, new_y)]
        /\ UNCHANGED <<grid, current_piece, last_fall, fall_speed, now>>

SpecCanMove == InitCanMove /\ [][CallCanMove]_vars

----------------------------------------------------------------------------
(* clear_rows on its own *)

FullRow == [c \in ColIdx |-> "I"]

\* a row that is neither empty nor complete and differs from row to row
TagRow(r) ==
    [c \in ColIdx |->
        IF c = r % GridCols THEN (IF r < GridCols THEN "T" ELSE "Z") ELSE None]

\* the rows in full are complete; the others are tagged or empty
TestGrid(full, tagged) ==
    [r \in RowIdx |->
        IF r \in full THEN FullRow
        ELSE IF tagged THEN TagRow(r) ELSE EmptyRow]

ClearGrids ==
    {TestGrid(full, tagged) :
        full \in {f \in SUBSET RowIdx : Cardinality(f) <= MaxFull}
                     \cup {RowIdx},
        tagged \in BOOLEAN}

InitClear ==
    /\ grid \in ClearGrids
    /\ current_piece = spawn_new_piece("I")
    /\ now = 0
    /\ last_fall = 0
    /\ fall_speed = NormalFall
    /\ last = [op |-> "new"]

CallClearRows ==
    /\ grid' = clear_rows(grid)
    /\ last' = [op |-> "clear_rows", before |-> grid]
    /\ UNCHANGED <<current_piece, last_fall, fall_speed, now>>

SpecClear == InitClear /\ [][CallClearRows]_vars

----------------------------------------------------------------------------
(* rotate_piece called several times in a row, and the rotated matrix on   *)
(* its own                                                                 *)

\* the grid after O pieces were moved one column to the right and dropped
\* one on another until the tower in columns 5 and 6 reached row 0 (every
\* one of them spawns on free cells and no row is ever complete)
tower_grid ==
    [r \in RowIdx |-> [c \in ColIdx |->
        IF c \in {SpawnX + 1, SpawnX + 2} THEN "O" ELSE None]]

\* the empty grid, the mid-game stack, and the tower
RotateGrids == {EmptyGrid, brick_grid(StartTop), tower_grid}

\* k presses of the R key
RECURSIVE rotate_n(_, _, _)
rotate_n(g, p, k) ==
    IF k = 0 THEN p
    ELSE rotate_n(g, [p EXCEPT !.shape = rotate_result(g, p)], k - 1)

\* k presses of the Left (dx = -1) or Right (dx = 1) key
RECURSIVE shift_n(_, _, _, _)
shift_n(g, p, dx, k) ==
    IF k = 0 THEN p
    ELSE shift_n(g,
                 IF can_move(g, p.shape, p.x + dx, p.y)
                 THEN [p EXCEPT !.x = p.x + dx] ELSE p,
                 dx, k - 1)

\* up to k due ticks, as long as the piece can move down
RECURSIVE fall_n(_, _, _)
fall_n(g, p, k) ==
    IF k = 0 \/ ~can_move(g, p.shape, p.x, p.y + 1) THEN p
    ELSE fall_n(g, [p EXCEPT !.y = p.y + 1], k - 1)

\* a piece spawned on g, rotated, moved sideways and fallen
played_piece(g, piece_type, turns, dx, shifts, drops) ==
    fall_n(g,
           shift_n(g, rotate_n(g, spawn_new_piece(piece_type), turns),
                   dx, shifts),
           drops)

InitRotate ==
    /\ grid \in RotateGrids
    /\ \E t \in PieceType : current_piece = spawn_new_piece(t)
    /\ now = 0
    /\ last_fall = 0
    /\ fall_speed = NormalFall
    /\ last = [op |-> "new"]

\* the play that brings the spawned piece to where the calls start
PlayPiece ==
    /\ last.op = "new"
    /\ \E turns \in 0 .. 1 : \E dx \in {0 - 1, 1} :
       \E shifts \in 0 .. MaxShift : \E drops \in 0 .. MaxDrop :
           current_piece' = played_piece(grid, current_piece.piece_type,
                                         turns, dx, shifts, drops)
    /\ last' = [op |-> "played", n |-> 0, first |-> current_piece',
                prev |-> current_piece'.shape, shape |-> current_piece'.shape]
    /\ UNCHANGED <<grid, last_fall, fall_speed, now>>

\* the R key pressed again, nothing else in between
CallRotate ==
    /\ last.op \in {"played", "rotate"}
    /\ last.n < MaxTurns
    /\ current_piece' =
           [current_piece EXCEPT !.shape = rotate_result(grid, current_piece)]
    /\ last' = [op |-> "rotate", n |-> last.n + 1, first |-> last.first,
                prev |-> current_piece.shape, shape |-> current_piece'.shape]
    /\ UNCHANGED <<grid, last_fall, fall_speed, now>>

\* the rotated matrix computed again from the last one, no placement test
CallTurn ==
    /\ last.op \in {"played", "turn"}
    /\ last.n < MaxTurns
    /\ last' = [op |-> "turn", n |-> last.n + 1, first |-> last.first,
                prev |-> last.shape, shape |-> rotated_shape(last.shape)]
    /\ UNCHANGED <<grid, current_piece, last_fall, fall_speed, now>>

SpecRotate == InitRotate /\ [][PlayPiece \/ CallRotate \/ CallTurn]_vars

----------------------------------------------------------------------------
(* clear_rows one loop iteration at a time; last holds the local variable  *)
(* row and counts the iterations of either kind                            *)

\* let mut row = 19
InitClearLoop ==
    /\ grid \in ClearGrids
    /\ current_piece = spawn_new_piece("I")
    /\ now = 0
    /\ last_fall = 0
    /\ fall_speed = NormalFall
    /\ last = [op |-> "scan", row |-> GridRows - 1, decs |-> 0, rems |-> 0]

\* an iteration that removes the row and moves on to the next one
LoopRemove_advances ==
    /\ last.op = "scan"
    /\ last.row > 0
    /\ row_complete(grid[last.row])
    /\ grid' = remove_row(grid, last.row)
    /\ last' = [last EXCEPT !.row = @ - 1, !.rems = @ + 1]
    /\ UNCHANGED <<current_piece, last_fall, fall_speed, now>>

\* an iteration that finds the row complete: lines 127-133
LoopRemove ==
    /\ last.op = "scan"
    /\ last.row > 0
    /\ row_complete(grid[last.row])
    /\ grid' = remove_row(grid, last.row)
    /\ last' = [last EXCEPT !.rems = @ + 1]
    /\ UNCHANGED <<current_piece, last_fall, fall_speed, now>>

\* an iteration that finds the row not complete: lines 134-136
LoopAdvance ==
    /\ last.op = "scan"
    /\ last.row > 0
    /\ ~row_complete(grid[last.row])
    /\ last' = [last EXCEPT !.row = @ - 1, !.decs = @ + 1]
    /\ UNCHANGED <<grid, current_piece, last_fall, fall_speed, now>>

\* the loop condition row > 0 found false: line 126
LoopExit ==
    /\ last.op = "scan"
    /\ ~(last.row > 0)
    /\ last' = [last EXCEPT !.op = "done"]
    /\ UNCHANGED <<grid, current_piece, last_fall, fall_speed, now>>

NextClearLoop == LoopRemove \/ LoopAdvance \/ LoopExit

\* the function runs on: whenever it has a next statement it executes it
SpecClearLoop ==
    InitClearLoop /\ [][NextClearLoop]_vars /\ WF_vars(NextClearLoop)

----------------------------------------------------------------------------
(* The game played on without an end of time.  The loop compares only the  *)
(* difference current_time - last_fall, so the clock is read relative to   *)
(* the last fall: last_fall stays 0 and a due tick sets the clock back to  *)
(* 0 where the code sets last_fall to current_time.  last counts the due   *)
(* ticks the current piece has had (ticks) and, in a lock, the due ticks   *)
(* the locked piece took (life).                                           *)

\* the variants spawn_new_piece draws from
LivePieces == {"I"}

\* the columns left free from row top down
ShaftCols == {SpawnX}

\* rows top+1..19 laid from the bottom up with flat I pieces played at
\* columns 0 and 5, row top with flat I pieces played at columns 0 and 6:
\* the shaft stays open, no row is complete, and the free cells of column 9
\* are covered
shaft_grid(top) ==
    [r \in RowIdx |-> [c \in ColIdx |->
        IF r < top \/ c \in ShaftCols THEN None
        ELSE IF r = top
             THEN (IF c = SpawnX + 1 THEN None ELSE "I")
             ELSE (IF c = GridCols - 1 THEN None ELSE "I")]]

InitLive ==
    /\ grid = shaft_grid(SpawnY + 1)
    /\ \E piece_type \in LivePieces :
           current_piece = spawn_new_piece(piece_type)
    /\ now = 0
    /\ last_fall = 0
    /\ fall_speed = NormalFall
    /\ last = [op |-> "play", res |-> "spawned", ticks |-> 0, life |-> 0,
               elapsed |-> 0]

\* the Left key: lines 206-211
LiveLeft ==
    LET new_x == current_piece.x - 1
        ok == can_move(grid, current_piece.shape, new_x, current_piece.y)
    IN  /\ current_piece' = IF ok THEN [current_piece EXCEPT !.x = new_x]
                                  ELSE current_piece
        /\ last' = [op |-> "left", res |-> IF ok THEN "moved" ELSE "blocked",
                    ticks |-> last.ticks, life |-> 0, elapsed |-> 0]
        /\ UNCHANGED <<grid, last_fall, fall_speed, now>>

\* the Right key: lines 212-217
LiveRight ==
    LET new_x == current_piece.x + 1
        ok == can_move(grid, current_piece.shape, new_x, current_piece.y)
    IN  /\ current_piece' = IF ok THEN [current_piece EXCEPT !.x = new_x]
                                  ELSE current_piece
        /\ last' = [op |-> "right", res |-> IF ok THEN "moved" ELSE "blocked",
                    ticks |-> last.ticks, life |-> 0, elapsed |-> 0]
        /\ UNCHANGED <<grid, last_fall, fall_speed, now>>

\* the R key: rotate_piece
LiveRotate ==
    LET new_shape == rotate_result(grid, current_piece)
    IN  /\ current_piece' = [current_piece EXCEPT !.shape = new_shape]
        /\ last' = [op |-> "rotate",
                    res |-> IF new_shape = current_piece.shape
                            THEN "reverted" ELSE "turned",
                    ticks |-> last.ticks, life |-> 0, elapsed |-> 0]
        /\ UNCHANGED <<grid, last_fall, fall_speed, now>>

\* the falling block leaving a piece that cannot move down where it is
LiveFalling_nolock(down, current_time) ==
    /\ fall_speed' = IF down THEN FastFall ELSE NormalFall
    /\ last_fall' = 0
    /\ grid' = grid
    /\ LET elapsed == current_time - last_fall
       IN  IF elapsed >= fall_speed'
           THEN /\ now' = 0
                /\ LET new_y == current_piece.y + 1
                       ok == can_move(grid, current_piece.shape,
                                      current_piece.x, new_y)
                   IN  /\ current_piece' =
                              IF ok THEN [current_piece EXCEPT !.y = new_y]
                                    ELSE current_piece
                       /\ last' = [op |-> "fall", res |-> "moved",
                                   ticks |-> IF ok THEN last.ticks + 1
                                                   ELSE last.ticks,
                                   life |-> 0, elapsed |-> elapsed]
           ELSE /\ now' = current_time
                /\ current_piece' = current_piece
                /\ last' = [op |-> "fall", res |-> "idle",
                            ticks |-> last.ticks, life |-> 0,
                            elapsed |-> elapsed]

\* the Down key and the falling block: lines 218-222 and 230-240
LiveFalling(down, current_time) ==
    /\ fall_speed' = IF down THEN FastFall ELSE NormalFall
    /\ last_fall' = 0
    /\ LET elapsed == current_time - last_fall
       IN  IF elapsed >= fall_speed'
           THEN /\ now' = 0
                /\ LET new_y == current_piece.y + 1
                   IN  IF can_move(grid, current_piece.shape,
                                   current_piece.x, new_y)
                       THEN /\ current_piece' =
                                   [current_piece EXCEPT !.y = new_y]
                            /\ grid' = grid
                            /\ last' = [op |-> "fall", res |-> "moved",
                                        ticks |-> last.ticks + 1,
                                        life |-> 0, elapsed |-> elapsed]
                       ELSE /\ grid' = lock_grid(grid, current_piece)
                            /\ \E piece_type \in LivePieces :
                                   current_piece' =
                                       spawn_new_piece(piece_type)
                            /\ last' = [op |-> "fall", res |-> "locked",
                                        ticks |-> 0,
                                        life |-> last.ticks + 1,
                                        elapsed |-> elapsed]
           ELSE /\ now' = current_time
                /\ UNCHANGED <<grid, current_piece>>
                /\ last' = [op |-> "fall", res |-> "idle",
                            ticks |-> last.ticks, life |-> 0,
                            elapsed |-> elapsed]

\* a pass of the loop body that reads the clock before the tick is due
LiveIdleTick ==
    \E down \in BOOLEAN : \E current_time \in {t \in Times : t >= now} :
        /\ current_time - last_fall < (IF down THEN FastFall ELSE NormalFall)
        /\ LiveFalling(down, current_time)

\* a pass of the loop body that reads the clock when the tick is due
LiveDueTick ==
    \E down \in BOOLEAN : \E current_time \in {t \in Times : t >= now} :
        /\ current_time - last_fall >= (IF down THEN FastFall ELSE NormalFall)
        /\ LiveFalling(down, current_time)

NextLive == LiveLeft \/ LiveRight \/ LiveRotate \/ LiveIdleTick \/ LiveDueTick

\* the loop keeps running and the clock keeps advancing: a due tick comes
SpecLive == InitLive /\ [][NextLive]_vars /\ WF_vars(LiveDueTick)

----------------------------------------------------------------------------
(* Vocabulary of the properties, stated from the specification's text *)

\* the occupied cells of a shape as <<row, column>> offsets from its origin
ShapeCells(shape) ==
    {rc \in (0 .. Len(shape) - 1) \X (0 .. Len(shape[1]) - 1) :
        shape[rc[1] + 1][rc[2] + 1]}

\* the absolute <<row, column>> cells a piece occupies
PieceCells(p) == {<<p.y + rc[1], p.x + rc[2]>> : rc \in ShapeCells(p.shape)}

\* some occupied cell of the shape at origin (x, y) is outside the columns,
\* below the bottom row, or on an occupied cell of a row >= 0
Blocked(g, shape, x, y) ==
    \E rc \in ShapeCells(shape) :
        LET row == y + rc[1]
            col == x + rc[2]
        IN  \/ col < 0
            \/ col >= GridCols
            \/ row >= GridRows
            \/ (row >= 0 /\ g[row][col] # None)

\* new is old turned a quarter clockwise: cell (r, c) of the R x C matrix
\* old is cell (c, R-1-r) of the C x R matrix new
QuarterTurn(old, new) ==
    /\ Len(new) = Len(old[1])
    /\ \A a \in 1 .. Len(new) : Len(new[a]) = Len(old)
    /\ \A r \in 0 .. Len(old) - 1 : \A c \in 0 .. Len(old[1]) - 1 :
           new[c + 1][(Len(old) - 1 - r) + 1] = old[r + 1][c + 1]

CompleteRows(g) == {r \in RowIdx : \A c \in ColIdx : g[r][c] # None}

----------------------------------------------------------------------------
(* C1: in every state reachable by moves, rotations and gravity ticks      *)
(* (lock, clear and respawn included) the current piece is collision-free: *)
(* none of its cells is outside the columns, below the bottom row or on an *)
(* occupied grid cell.                                                     *)
C1_PieceCollisionFree ==
    ~Blocked(grid, current_piece.shape, current_piece.x, current_piece.y)

(* C2: can_move returns false exactly when some occupied shape cell maps   *)
(* outside columns [0,10), to a row >= 20, or onto an occupied grid cell   *)
(* of a row >= 0; cells of negative rows are neither rejected nor checked. *)
C2_CanMoveExact ==
    last.op = "can_move" =>
        last.ok = ~Blocked(grid, current_piece.shape, last.x, last.y)

\* a probe with cells above row 0 accepted, and one rejected on an occupied cell
C2_Witness ==
    /\ last.op = "can_move"
    /\ last.y < 0
    /\ last.ok
    /\ grid # EmptyGrid

(* C3: rotate is all or nothing: the shape becomes the quarter turn of the *)
(* old shape when that can be placed at the unchanged origin and stays the *)
(* old shape cell for cell when it cannot; origin, variant and grid are    *)
(* unchanged either way.                                                   *)
C3_RotateAllOrNothing ==
    [][last'.op = "rotate" =>
        /\ \E turned \in {current_piece'.shape, rotated_shape(current_piece.shape)} :
              /\ QuarterTurn(current_piece.shape, turned)
              /\ current_piece'.shape =
                     IF Blocked(grid, turned, current_piece.x, current_piece.y)
                     THEN current_piece.shape
                     ELSE turned
        /\ current_piece'.x = current_piece.x
        /\ current_piece'.y = current_piece.y
        /\ current_piece'.piece_type = current_piece.piece_type
        /\ grid' = grid]_vars

\* a rotation that was rolled back
C3_Witness ==
    /\ last.op = "rotate"
    /\ last.res = "reverted"
    /\ Len(current_piece.shape) < Len(current_piece.shape[1])

(* C4: after one call of clear_rows no row of the grid is complete.        *)
C4_NoCompleteRowLeft ==
    last.op = "clear_rows" => CompleteRows(grid) = {}

\* the rows one call removes: every complete row, unless the only complete
\* row is row 0, which the scan never examines
RemovedRows(g) ==
    IF CompleteRows(g) \ {0} # {} THEN CompleteRows(g) ELSE {}

\* g with the rows of the set removed taken out: the top rows are empty and
\* each kept row lies lower by the number of removed rows below it
Collapse(g, removed) ==
    [r \in RowIdx |->
        IF r < Cardinality(removed) THEN EmptyRow
        ELSE g[CHOOSE s \in RowIdx \ removed :
                   s + Cardinality({j \in removed : j > s}) = r]]

(* C5: clear_rows preserves what it does not clear: with k rows removed,   *)
(* every kept row keeps its contents and its order among the kept rows,    *)
(* lies lower by exactly the number of removed rows below it, and the top  *)
(* k rows are empty.                                                       *)
C5_ClearKeepsTheRest ==
    last.op = "clear_rows" =>
        LET before == last.before
            removed == RemovedRows(before)
        IN  /\ \A s \in RowIdx \ removed :
                   grid[s + Cardinality({j \in removed : j > s})] = before[s]
            /\ \A r \in 0 .. Cardinality(removed) - 1 :
                   \A c \in ColIdx : grid[r][c] = None

\* rows 5 and 10 complete among rows with content: both removed in one call
C5_Witness ==
    /\ last.op = "clear_rows"
    /\ CompleteRows(last.before) = {5, 10}
    /\ last.before[0] # EmptyRow
    /\ grid[6] = last.before[5 - 1]
    /\ grid[10] = last.before[9]

(* C6: a grid whose 20 rows are all complete is all empty after a single   *)
(* call of clear_rows.                                                     *)
C6_FullGridBecomesEmpty ==
    (last.op = "clear_rows" /\ CompleteRows(last.before) = RowIdx) =>
        \A r \in RowIdx : \A c \in ColIdx : grid[r][c] = None

\* clear_rows has run on the grid whose rows were all complete
C6_Witness ==
    /\ last.op = "clear_rows"
    /\ CompleteRows(last.before) = RowIdx
    /\ grid = EmptyGrid

\* the grid with the piece's cells holding its variant, all else as in g
Written(g, p) ==
    LET cells == PieceCells(p)
    IN  [r \in RowIdx |-> [c \in ColIdx |->
            IF <<r, c>> \in cells THEN p.piece_type ELSE g[r][c]]]

(* C7: when the piece is locked and the lock completes no row, every cell  *)
(* of the piece holds the piece's variant in the grid afterwards and every *)
(* other grid cell holds the value it held before the lock.                *)
C7_LockWritesPieceOnly ==
    [][(last'.op = "fall" /\ last'.res = "locked") =>
        LET cells == PieceCells(current_piece)
        IN  (\A r \in RowIdx : \E c \in ColIdx :
                 grid[r][c] = None /\ <<r, c>> \notin cells)
            =>
            \A r \in RowIdx : \A c \in ColIdx :
                grid'[r][c] = IF <<r, c>> \in cells
                              THEN current_piece.piece_type
                              ELSE grid[r][c]]_vars

\* a piece has just been locked and lies in row 0: no row was removed
C7_Witness ==
    /\ last.op = "fall"
    /\ last.res = "locked"
    /\ \E c \in ColIdx : grid[0][c] # None

(* C8: a horizontal move by -1 or +1 commits the origin (x + dx, y) if and *)
(* only if the collision predicate accepts the shape there; a rejected     *)
(* move leaves origin, shape and variant unchanged, and a committed move   *)
(* changes only x.                                                         *)
C8_HorizontalMove ==
    [][last'.op \in {"left", "right"} =>
        LET dx == IF last'.op = "left" THEN 0 - 1 ELSE 1
            accepted == ~Blocked(grid, current_piece.shape,
                                 current_piece.x + dx, current_piece.y)
        IN  /\ current_piece'.x =
                   IF accepted THEN current_piece.x + dx ELSE current_piece.x
            /\ current_piece'.y = current_piece.y
            /\ current_piece'.shape = current_piece.shape
            /\ current_piece'.piece_type = current_piece.piece_type
            /\ grid' = grid]_vars

\* a left move rejected while the piece's leftmost occupied column is 0
C8_Witness ==
    /\ last.op = "left"
    /\ last.res = "blocked"
    /\ \E rc \in PieceCells(current_piece) : rc[2] = 0
    /\ \A rc \in PieceCells(current_piece) : rc[2] >= 0

\* a freshly spawned piece: canonical shape of its variant at origin (4, 0)
FreshPiece(p) ==
    \E t \in PieceType :
        p = [shape |-> get_piece_shape(t), x |-> 4, y |-> 0, piece_type |-> t]

(* C9: on a due gravity tick, if the piece can be placed one row lower its *)
(* y grows by exactly 1 and grid, x, shape and variant are unchanged; if   *)
(* it cannot, the piece is locked at its current position (grid cells      *)
(* change), rows are cleared and a new piece is spawned.  It is a lock     *)
(* only when the downward placement is rejected.                           *)
C9_DueTickMovesOrLocks ==
    [][(last'.op = "fall" /\ now' - last_fall >= fall_speed') =>
        IF ~Blocked(grid, current_piece.shape,
                    current_piece.x, current_piece.y + 1)
        THEN /\ current_piece' =
                    [current_piece EXCEPT !.y = current_piece.y + 1]
             /\ grid' = grid
        ELSE /\ grid' # grid
             /\ LET written == Written(grid, current_piece)
                IN  grid' = Collapse(written, RemovedRows(written))
             /\ FreshPiece(current_piece')]_vars

(* C10: a tick whose elapsed time is below the fall interval changes       *)
(* nothing in the simulation; a due tick sets last_fall to the current     *)
(* time whether the piece moved down or was locked, so consecutive gravity *)
(* steps are at least one fall interval apart.                             *)
C10_GravityTiming ==
    [][last'.op = "fall" =>
        IF now' - last_fall < fall_speed'
        THEN /\ current_piece' = current_piece
             /\ grid' = grid
             /\ last_fall' = last_fall
        ELSE /\ last_fall' = now'
             /\ last_fall' - last_fall >= fall_speed']_vars

\* a due tick at the normal interval has locked a piece
C10_Witness ==
    /\ last.op = "fall"
    /\ last.res = "locked"
    /\ fall_speed = NormalFall
    /\ last_fall = now
    /\ now = NormalFall

(* C11: four rotate calls in a row on an I piece, from any reachable       *)
(* state, leave the shape it had before the first call, and its origin.    *)
C11_FourRotationsOfI ==
    (last.op = "rotate" /\ last.n = 4 /\ current_piece.piece_type = "I") =>
        /\ current_piece.shape = last.first.shape
        /\ current_piece.x = last.first.x
        /\ current_piece.y = last.first.y

(* C15: the rotation sends cell (r, c) of an R x C shape to cell           *)
(* (c, R-1-r) of a C x R shape; it keeps the number of occupied cells, and *)
(* applied four times it gives the original matrix back.                   *)
C15_QuarterTurnMapping ==
    last.op = "turn" =>
        /\ QuarterTurn(last.prev, last.shape)
        /\ Cardinality(ShapeCells(last.shape))
               = Cardinality(ShapeCells(last.first.shape))
        /\ (last.n = 4 => last.shape = last.first.shape)

\* the canonical L shape turned four times
C15_Witness ==
    /\ last.op = "turn"
    /\ last.n = 4
    /\ last.first.shape = get_piece_shape("L")
    /\ last.shape = get_piece_shape("L")
    /\ Len(last.prev) = 3

(* C12: when the current piece is the O piece, rotate leaves its shape as  *)
(* it was (2x2, all occupied), accepted or rolled back, and leaves the     *)
(* origin and the grid unchanged.                                          *)
C12_RotateOIsInvisible ==
    [][(last'.op = "rotate" /\ current_piece.piece_type = "O") =>
        /\ current_piece'.shape = current_piece.shape
        /\ current_piece'.shape = <<<<TRUE, TRUE>>, <<TRUE, TRUE>>>>
        /\ current_piece'.x = current_piece.x
        /\ current_piece'.y = current_piece.y
        /\ current_piece'.piece_type = "O"
        /\ grid' = grid]_vars

\* an O piece spawned on occupied cells, its rotation rolled back
C12_Witness ==
    /\ last.op = "rotate"
    /\ last.res = "reverted"
    /\ current_piece.piece_type = "O"

(* C13: the grid is written only by locking: moves, rotations, ticks that  *)
(* are not due and due ticks whose downward move succeeds leave every cell *)
(* as it was; the grid changes only in a step where a due tick finds the   *)
(* downward move rejected.                                                 *)
C13_GridWrittenOnlyByLock ==
    [][(\E r \in 0 .. 19 : \E c \in 0 .. 9 : grid'[r][c] # grid[r][c]) =>
        /\ last'.op = "fall"
        /\ now' - last_fall >= fall_speed'
        /\ Blocked(grid, current_piece.shape,
                   current_piece.x, current_piece.y + 1)]_vars

\* a due tick after the first one has locked a piece
C13_Witness ==
    /\ last.op = "fall"
    /\ last.res = "locked"
    /\ now = NormalFall
    /\ last_fall = NormalFall
    /\ \E c \in ColIdx : grid[1][c] # None

(* C14: a new game starts with an all-empty 20x10 grid; at the new game    *)
(* and right after every lock the current piece has origin (4, 0) and the  *)
(* canonical shape of its variant, whatever the grid holds (an I piece is  *)
(* on cells (4,0)..(7,0)); a lock writes the piece cells, then clears      *)
(* rows, then spawns.                                                      *)
C14_SpawnFixedLockOrdered ==
    /\ [](/\ last.op = "new" =>
                /\ DOMAIN grid = 0 .. 19
                /\ \A r \in 0 .. 19 :
                       /\ DOMAIN grid[r] = 0 .. 9
                       /\ \A c \in 0 .. 9 : grid[r][c] = None
          /\ (last.op = "new" \/ (last.op = "fall" /\ last.res = "locked")) =>
                /\ FreshPiece(current_piece)
                /\ current_piece.piece_type = "I" =>
                       PieceCells(current_piece)
                           = {<<0, 4>>, <<0, 5>>, <<0, 6>>, <<0, 7>>})
    /\ [][(/\ last'.op = "fall"
           /\ last'.res = "locked"
           /\ now' - last_fall >= fall_speed')
              => LET written == Written(grid, current_piece)
                 IN  /\ grid' = Collapse(written, RemovedRows(written))
                     /\ FreshPiece(current_piece')]_vars

\* the I piece spawned after a lock lying on
\* occupied cells of row 0
C14_Witness ==
    /\ last.op = "fall"
    /\ last.res = "locked"
    /\ current_piece.piece_type = "I"
    /\ \E c \in 4 .. 7 : grid[0][c] # None

(* C16: in every reachable state, also when a freshly spawned piece lies   *)
(* on occupied cells, every occupied cell of the current piece is in       *)
(* columns 0..9 and rows 0..19 and the origin y is not negative, so the    *)
(* grid is never indexed out of range and no tested cell has a negative    *)
(* row.                                                                    *)
C16_PieceInsideField ==
    /\ current_piece.y >= 0
    /\ \A cell \in PieceCells(current_piece) :
           /\ cell[1] >= 0
           /\ cell[1] < 20
           /\ cell[2] >= 0
           /\ cell[2] < 10
    \* the positions can_move is asked about have no cell in a negative row:
    \* the same rows (Left, Right), one row down (falling), and the rows of
    \* the rotated shape, whose row offsets are the old column offsets
    /\ \A rc \in ShapeCells(current_piece.shape) :
           /\ current_piece.y + rc[1] >= 0
           /\ current_piece.y + 1 + rc[1] >= 0
           /\ current_piece.y + rc[2] >= 0

\* a T piece spawned on occupied cells
C16_Witness ==
    /\ last.op = "fall"
    /\ last.res = "locked"
    /\ current_piece.piece_type = "T"
    /\ Blocked(grid, current_piece.shape, current_piece.x, current_piece.y)

(* C17: a lock never overwrites an occupied grid cell: whenever a lock     *)
(* happens, the cells the piece writes were all empty just before, so the  *)
(* number of occupied cells grows by exactly 4 before rows are cleared.    *)
C17_LockWritesEmptyCells ==
    [][(/\ last'.op = "fall"
        /\ last'.res = "locked"
        /\ now' - last_fall >= fall_speed')
           => LET occupied(g) ==
                      {rc \in (0 .. 19) \X (0 .. 9) : g[rc[1]][rc[2]] # None}
              IN  /\ \A cell \in PieceCells(current_piece) :
                         grid[cell[1]][cell[2]] = None
                  /\ Cardinality(occupied(Written(grid, current_piece)))
                         = Cardinality(occupied(grid)) + 4]_vars

(* C19: clear_rows terminates on every grid: each loop iteration either    *)
(* moves the scan index up by one, or removes one complete row and so      *)
(* lowers by one the number of complete rows at or above the scan index;   *)
(* the loop ends with the index at 0 after at most 19 decrements and at    *)
(* most 20 removals.                                                       *)
C19_ClearRowsTerminates ==
    /\ [][last' # last /\ last'.op = "scan" =>
            LET above(g) == {r \in CompleteRows(g) : r <= last.row}
            IN  \/ /\ last'.row = last.row - 1
                   /\ grid' = grid
                \/ /\ last'.row = last.row
                   /\ last.row \in CompleteRows(grid)
                   /\ grid' = Collapse(grid, {last.row})
                   /\ Cardinality(above(grid'))
                          = Cardinality(above(grid)) - 1]_vars
    /\ [](/\ last.decs <= 19
          /\ last.rems <= 20
          /\ last.op = "done" => last.row = 0 /\ last.decs = 19)
    /\ <>(last.op = "done")

\* the loop ended on the grid whose twenty rows were all complete
C19_Witness ==
    /\ last.op = "done"
    /\ last.rems = 20
    /\ last.decs = 19
    /\ grid = EmptyGrid

\* the matrix that is shape turned a quarter clockwise
QuarterTurnOf(shape) ==
    CHOOSE new \in [1 .. Len(shape[1]) -> [1 .. Len(shape) -> BOOLEAN]] :
        QuarterTurn(shape, new)

\* the canonical shape of each variant and its three further rotations
Orientations ==
    [t \in PieceType |->
        LET r0 == get_piece_shape(t)
            r1 == QuarterTurnOf(r0)
            r2 == QuarterTurnOf(r1)
            r3 == QuarterTurnOf(r2)
        IN  {r0, r1, r2, r3}]

(* C20: in every reachable state the shape of the current piece is one of  *)
(* the rotations of the canonical shape of its variant and has exactly 4   *)
(* occupied cells; the variant of a piece does not change between its      *)
(* spawn and its lock.                                                     *)
C20_ShapeIsRotationOfVariant ==
    /\ [](/\ current_piece.shape \in Orientations[current_piece.piece_type]
          /\ Cardinality(ShapeCells(current_piece.shape)) = 4)
    /\ [][current_piece'.piece_type # current_piece.piece_type =>
            /\ last'.op = "fall"
            /\ last'.res = "locked"
            /\ now' - last_fall >= fall_speed'
            /\ Blocked(grid, current_piece.shape,
                       current_piece.x, current_piece.y + 1)]_vars

\* a J piece turned upside down
C20_Witness ==
    /\ current_piece.piece_type = "J"
    /\ Len(current_piece.shape) = 2
    /\ current_piece.shape # get_piece_shape("J")
    /\ last.op = "rotate"

(* C18: every piece is eventually locked.  Within one piece's life y never *)
(* decreases, only a due gravity tick changes y, and each due tick either  *)
(* increases y by 1 or locks; so, whatever moves and rotations come in     *)
(* between, a piece is locked after at most 20 due ticks, and with due     *)
(* ticks occurring fairly lock-and-respawn happens infinitely often.       *)
C18_EveryPieceIsLocked ==
    /\ [][\/ (last'.op = "fall" /\ last'.res = "locked")
          \/ current_piece'.y >= current_piece.y]_vars
    /\ [][current_piece'.y # current_piece.y =>
            (last'.op = "fall" /\ last'.elapsed >= fall_speed')]_vars
    /\ [][(last'.op = "fall" /\ last'.elapsed >= fall_speed') =>
            \/ /\ current_piece' =
                      [current_piece EXCEPT !.y = current_piece.y + 1]
               /\ grid' = grid
               /\ last'.ticks = last.ticks + 1
            \/ /\ last'.res = "locked"
               /\ FreshPiece(current_piece')
               /\ last'.life = last.ticks + 1]_vars
    /\ [](/\ last.ticks = current_piece.y
          /\ last.ticks < 20
          /\ last.life <= 20)
    /\ []<>(last.op = "fall" /\ last.res = "locked")

\* an I piece turned upright, fallen down the shaft and locked on its floor
C18_Witness ==
    /\ last.op = "fall"
    /\ last.res = "locked"
    /\ last.life = 17
    /\ grid[GridRows - 1][SpawnX] = "I"

====
